---- MODULE Spec2Model ----
(***************************************************************************)
(* A model of the independent utility functions of the repository:         *)
(*   f_32      next business day            (f_509_ming_wo_doc.py)         *)
(*   f_843     bounded sum of squares       (f_705_xiaoheng_w_doc.py)      *)
(*   f_220     IP -> hostname resolver      (f_220_haolan_ratna_edit.py)   *)
(*   task_func performance series generator (493_wo_doc.py)                *)
(*   f_410     traffic data generator       (f_456_ming_wo_doc.py)         *)
(*   f_391     random table generator       (f_481_ming_w_doc.py)          *)
(* Apart from the generator of module random, which task_func and f_410    *)
(* both draw from, the functions share no state, so each has its own       *)
(* specification (SpecF32, SpecF843, SpecF220, SpecTF, SpecF410, SpecF391)  *)
(* in which the variables of the others rest.                              *)
(***************************************************************************)
EXTENDS Integers, Sequences, FiniteSets, TLC

VARIABLES
    f32_pc,         \* f_32: "off", "start", "loop", "returned", "raised"
    date_str,       \* f_32: the argument, a calendar date <<y, m, d>>
    given_date,     \* f_32: parse(date_str), as a proleptic Gregorian ordinal
    next_day,       \* f_32: the loop variable, an ordinal
    f843_pc,        \* f_843: "off", "loop", "returned"
    list_of_lists,  \* f_843: the argument
    f843_i,         \* f_843: number of sublists the for loop has consumed
    sums,           \* f_843: the list being built
    f220_pc,        \* f_220: "off", "loop", "returned", "raised"
    ip_addresses,   \* f_220: the argument, a list of strings
    f220_i,         \* f_220: number of strings the for loop has consumed
    hostnames,      \* f_220: the dict being built, [keys, val]
    lookups,        \* f_220: the socket.gethostbyaddr calls made, with outcomes
    tf_pc,          \* task_func: "off", "idle", "gen", "plot", "returned", "raised"
    tf_error,       \* task_func: the exception raised, "" when none
    epoch_milliseconds, \* task_func: argument
    teams,          \* task_func: argument
    random_seed,    \* task_func: argument
    current_time,   \* task_func: the clock when the call was made
    days_diff,      \* task_func: local
    performance_data, \* task_func: the dict being built
    tf_i,           \* task_func: day index of the outer loop
    tf_j,           \* task_func: number of teams the inner loop has consumed
    tf_draws,       \* task_func: random values drawn by the current call
    rng,            \* the state of the shared generator of module random
    rng_before,     \* the state of the generator when the current call began
    open_figures,   \* the figures pyplot holds
    figures_before, \* the figures pyplot held when the current call began
    f410_pc,        \* f_410: "off", "idle", "returned", "raised"
    hours,          \* f_410: argument
    output_dir,     \* f_410: argument
    f410_result,    \* f_410: the pair returned, [path, ax]
    dir_exists,     \* the file system: the directories that exist
    files,          \* the file system: traffic_data.csv of each directory
    clock,          \* the clock datetime.now() reads, in ticks
    f410_existed,   \* f_410: what os.path.exists(output_dir) answered at line 41
    f410_made,      \* f_410: whether the current call ran os.makedirs
    file_before,    \* f_410: traffic_data.csv as the current call found it
    last_data,      \* per directory, the data of the latest call that wrote there
    f391_pc,        \* f_391: "off", "start", "shaped", "generated", "returned", "raised"
    L,              \* f_391: the argument, <<(<<a, b>>), (<<c, d>>)>>
    rows,           \* f_391: local
    columns,        \* f_391: local
    random_array,   \* f_391: local, [shape, values]
    f391_df         \* f_391: the DataFrame returned, [index, columns, values]

vars_f32 == <<f32_pc, date_str, given_date, next_day>>
vars_f843 == <<f843_pc, list_of_lists, f843_i, sums>>

vars_f220 == <<f220_pc, ip_addresses, f220_i, hostnames, lookups>>

vars_tf ==
    <<tf_pc, tf_error, epoch_milliseconds, teams, random_seed, current_time,
      days_diff, performance_data, tf_i, tf_j, tf_draws, rng_before,
      open_figures, figures_before>>
vars_f410 ==
    <<f410_pc, hours, output_dir, f410_result, dir_exists, files, clock,
      f410_existed, f410_made, file_before, last_data>>

vars_f391 == <<f391_pc, L, rows, columns, random_array, f391_df>>

vars == <<vars_f32, vars_f843, vars_f220, vars_tf, vars_f410, vars_f391, rng>>

(***************************************************************************)
(* Python's datetime: calendar arithmetic                                  *)
(***************************************************************************)

\* datetime.MAXYEAR; date.max is December 31 of that year.
MAXYEAR == 9999

is_leap(y) == y % 4 = 0 /\ (y % 100 # 0 \/ y % 400 = 0)

days_in_month(y, m) ==
    IF m = 2 THEN (IF is_leap(y) THEN 29 ELSE 28)
    ELSE IF m \in {4, 6, 9, 11} THEN 30 ELSE 31

\* number of days before January 1st of year y
days_before_year(y) ==
    (y - 1) * 365 + ((y - 1) \div 4) - ((y - 1) \div 100) + ((y - 1) \div 400)

RECURSIVE days_before_month(_, _)
days_before_month(y, m) ==
    IF m = 1 THEN 0 ELSE days_before_month(y, m - 1) + days_in_month(y, m - 1)

\* datetime.toordinal(): 0001-01-01 is day 1
ymd2ord(y, m, d) == days_before_year(y) + days_before_month(y, m) + d

MaxOrdinal == ymd2ord(MAXYEAR, 12, 31)

\* datetime.weekday(): Monday is 0, Sunday is 6
weekday(ord) == (ord + 6) % 7

\* the years the argument of f_32 is drawn from (a common year, a leap year,
\* and the last year datetime represents)
Years == {2022, 2024, MAXYEAR}

\* the strings dateutil's parse accepts as "yyyy-mm-dd": real calendar dates
ParseableDates ==
    {ymd \in Years \X (1..12) \X (1..31) : ymd[3] <= days_in_month(ymd[1], ymd[2])}

\* parse(date_str): the datetime (midnight) of the calendar date
parse(ymd) == ymd2ord(ymd[1], ymd[2], ymd[3])

(***************************************************************************)
(* f_32                                                                    *)
(***************************************************************************)

\* f_32 is not running
F32Off ==
    /\ f32_pc = "off"
    /\ date_str = <<1, 1, 1>>
    /\ given_date = 0
    /\ next_day = 0

\* f_32 has been called with a parseable date string
F32Init ==
    /\ f32_pc = "start"
    /\ date_str \in ParseableDates
    /\ given_date = 0
    /\ next_day = 0

\* lines 25-26: given_date = parse(date_str); next_day = given_date
F32Start ==
    /\ f32_pc = "start"
    /\ given_date' = parse(date_str)
    /\ next_day' = parse(date_str)
    /\ f32_pc' = "loop"
    /\ UNCHANGED date_str

\* the loop test with Saturday taken for a business day
IsBusinessDay_Sat(ord) == 0 <= weekday(ord) /\ weekday(ord) < 6

\* the loop test of line 29
IsBusinessDay(ord) == 0 <= weekday(ord) /\ weekday(ord) < 5

\* lines 27-31, one iteration: next_day + timedelta(days=1) raises OverflowError
\* past date.max; a weekday breaks out of the loop and returns.
F32Step ==
    /\ f32_pc = "loop"
    /\ IF next_day + 1 > MaxOrdinal
         THEN /\ f32_pc' = "raised"
              /\ UNCHANGED next_day
         ELSE /\ next_day' = next_day + 1
              /\ f32_pc' = IF IsBusinessDay(next_day + 1) THEN "returned" ELSE "loop"
    /\ UNCHANGED <<date_str, given_date>>

(***************************************************************************)
(* f_843                                                                   *)
(***************************************************************************)

Min(a, b) == IF a <= b THEN a ELSE b

\* POSSIBLE_NUMBERS = np.arange(1, 11)
POSSIBLE_NUMBERS == [k \in 1..10 |-> k]

\* seq[:n] for n >= 0: the first n elements, or all of them when there are fewer
SliceTo(seq, n) == SubSeq(seq, 1, Min(n, Len(seq)))

\* sum(math.pow(x, 2) for x in xs); the floats are whole numbers far below
\* 2^53, so they are modelled by the integers they equal
RECURSIVE SumOfSquares(_)
SumOfSquares(xs) ==
    IF xs = <<>> THEN 0 ELSE Head(xs) * Head(xs) + SumOfSquares(Tail(xs))

\* bounds of the argument
MaxLists == 2
MaxSubLen == 11

\* the values the sublists hold
SubValues == {2, 7}

\* sublists: every list of at most 2 values, and longer lists of one value
\* followed by another
SubLists ==
    UNION {[1..n -> SubValues] : n \in 0..2}
    \cup {[k \in 1..n |-> IF k = 1 THEN a ELSE b] :
             n \in 3..MaxSubLen, a \in SubValues, b \in SubValues}

F843Off ==
    /\ f843_pc = "off"
    /\ list_of_lists = <<>>
    /\ f843_i = 0
    /\ sums = <<>>

\* line 28: sums = []
F843Init ==
    /\ f843_pc = "loop"
    /\ list_of_lists \in UNION {[1..n -> SubLists] : n \in 0..MaxLists}
    /\ f843_i = 0
    /\ sums = <<>>

\* the sum taken over the sublist's own values
SumFor_OwnValues(list_) == SumOfSquares(SliceTo(list_, Len(POSSIBLE_NUMBERS)))

\* line 30
SumFor(list_) == SumOfSquares(SliceTo(POSSIBLE_NUMBERS, Len(list_)))

\* lines 29-31: one iteration of the for loop
F843Step ==
    /\ f843_pc = "loop"
    /\ f843_i < Len(list_of_lists)
    /\ sums' = Append(sums, SumFor(list_of_lists[f843_i + 1]))
    /\ f843_i' = f843_i + 1
    /\ UNCHANGED <<f843_pc, list_of_lists>>

\* line 32: return sums
F843Return ==
    /\ f843_pc = "loop"
    /\ f843_i = Len(list_of_lists)
    /\ f843_pc' = "returned"
    /\ UNCHANGED <<list_of_lists, f843_i, sums>>

(***************************************************************************)
(* Python values used by f_220                                             *)
(***************************************************************************)

\* A Python str is modelled as the sequence of its characters.
Digits == {"0", "1", "2", "3", "4", "5", "6", "7", "8", "9"}

\* None, and a str held as a dict value
None == [kind |-> "None"]
PyStr(chars) == [kind |-> "str", s |-> chars]

\* A dict keeps its keys in insertion order: keys is that order, val the values.
EmptyDict == [keys |-> <<>>, val |-> <<>>]

SeqRange(q) == {q[k] : k \in 1..Len(q)}

\* d[k] = v moving an existing key to the end of the order
DictSet_MoveToEnd(d, k, v) ==
    [keys |-> Append(SelectSeq(d.keys, LAMBDA x : x # k), k),
     val  |-> [x \in SeqRange(d.keys) \cup {k} |-> IF x = k THEN v ELSE d.val[x]]]

\* d[k] = v: a new key is appended to the order, an existing key keeps its place
DictSet(d, k, v) ==
    [keys |-> IF k \in SeqRange(d.keys) THEN d.keys ELSE Append(d.keys, k),
     val  |-> [x \in SeqRange(d.keys) \cup {k} |-> IF x = k THEN v ELSE d.val[x]]]

(***************************************************************************)
(* re.match(IP_REGEX, ip) with IP_REGEX = [0-9]+(?:\.[0-9]+){3}            *)
(***************************************************************************)

\* the position after the longest run of digits of s that starts at p
RECURSIVE SkipDigits(_, _)
SkipDigits(s, p) ==
    IF p <= Len(s) /\ s[p] \in Digits THEN SkipDigits(s, p + 1) ELSE p

\* [0-9]+ at position p: the position after the match, 0 when there is none.
\* (The quantifier is greedy; giving digits back never helps, since what
\* follows must be a dot or the end of the pattern.)
MatchDigits(s, p) ==
    IF p # 0 /\ SkipDigits(s, p) > p THEN SkipDigits(s, p) ELSE 0

\* (?:\.[0-9]+) at position p
MatchDotDigits(s, p) ==
    IF p # 0 /\ p <= Len(s) /\ s[p] = "." THEN MatchDigits(s, p + 1) ELSE 0

\* re.match anchors the pattern at the start of the string only: it succeeds
\* when a prefix of s matches
re_match(s) ==
    MatchDotDigits(s, MatchDotDigits(s, MatchDotDigits(s, MatchDigits(s, 1)))) # 0

(***************************************************************************)
(* socket.gethostbyaddr(ip)                                                *)
(***************************************************************************)

\* the longest label the idna codec encodes
MaxLabelLen == 63

\* The argument is first encoded with the idna codec, which raises
\* UnicodeError for an empty label (other than a last one) or a label of more
\* than 63 characters.
IdnaEncodable(s) ==
    /\ ~(Len(s) >= 1 /\ s[1] = ".")
    /\ \A k \in 1..(Len(s) - 1) : ~(s[k] = "." /\ s[k + 1] = ".")
    /\ \A k \in 1..(Len(s) - MaxLabelLen) :
          \E j \in k..(k + MaxLabelLen) : s[j] = "."

\* the names a successful lookup may return
HostNames == {<<"d", "n", "s">>, <<"o", "n", "e">>}

\* the lookup returns a name
Returns(name) == [returns |-> name]

\* the lookup raises an exception
Raises(exception) == [raises |-> exception]

\* the errors f_220 catches
LookupErrors == {Raises("herror"), Raises("gaierror")}

\* What a lookup of an encodable string may do: return a name, or raise one of
\* socket.herror and socket.gaierror. The resolver decides, not the program.
LookupOutcomes == {Returns(name) : name \in HostNames} \cup LookupErrors

(***************************************************************************)
(* f_220                                                                   *)
(***************************************************************************)

\* bound of the argument
MaxIps == 3

IP_1234   == <<"1", ".", "2", ".", "3", ".", "4">>
IP_8844   == <<"8", ".", "8", ".", "4", ".", "4">>
IP_256    == <<"2", "5", "6", ".", "2", "5", "6", ".", "2", "5", "6", ".", "2", "5", "6">>
S_12345   == <<"1", ".", "2", ".", "3", ".", "4", ".", "5">>
S_1234a   == <<"1", ".", "2", ".", "3", ".", "4", "a">>
S_1234dd5 == <<"1", ".", "2", ".", "3", ".", "4", ".", ".", "5">>
S_empty   == <<>>
S_123     == <<"1", ".", "2", ".", "3">>
S_a1234   == <<"a", "1", ".", "2", ".", "3", ".", "4">>
S_1dd234  == <<"1", ".", ".", "2", ".", "3", ".", "4">>

\* the strings the argument is drawn from
InputStrings ==
    {IP_1234, IP_8844, IP_256, S_12345, S_1234a, S_1234dd5,
     S_empty, S_123, S_a1234, S_1dd234}

F220Off ==
    /\ f220_pc = "off"
    /\ ip_addresses = <<>>
    /\ f220_i = 0
    /\ hostnames = EmptyDict
    /\ lookups = <<>>

\* lines 26-27: IP_REGEX = ...; hostnames = {}
F220Init ==
    /\ f220_pc = "loop"
    /\ ip_addresses \in UNION {[1..n -> InputStrings] : n \in 0..MaxIps}
    /\ f220_i = 0
    /\ hostnames = EmptyDict
    /\ lookups = <<>>

\* the test of line 29
PatternMatches(ip) == re_match(ip)

\* lines 28-29: the next string does not match and is skipped
F220Skip ==
    /\ f220_pc = "loop"
    /\ f220_i < Len(ip_addresses)
    /\ ~PatternMatches(ip_addresses[f220_i + 1])
    /\ f220_i' = f220_i + 1
    /\ UNCHANGED <<f220_pc, ip_addresses, hostnames, lookups>>

\* the value lines 32 and 34 store for a lookup outcome
ValueFor(outcome) ==
    IF outcome \in LookupErrors THEN None ELSE PyStr(outcome.returns)

\* the lookup with the except clause missing: a failure ends the call
F220Lookup_NoCatch(outcome) ==
    /\ f220_pc = "loop"
    /\ f220_i < Len(ip_addresses)
    /\ LET ip == ip_addresses[f220_i + 1]
       IN  /\ PatternMatches(ip)
           /\ IdnaEncodable(ip)
           /\ hostnames' = IF outcome \in LookupErrors THEN hostnames
                            ELSE DictSet(hostnames, ip, ValueFor(outcome))
           /\ lookups' = Append(lookups, [at |-> f220_i + 1, outcome |-> outcome])
    /\ f220_i' = IF outcome \in LookupErrors THEN f220_i ELSE f220_i + 1
    /\ f220_pc' = IF outcome \in LookupErrors THEN "raised" ELSE f220_pc
    /\ UNCHANGED ip_addresses

\* lines 28-34: the next string matches and its lookup returns a name (lines
\* 31-32) or raises herror or gaierror (lines 33-34)
F220Lookup(outcome) ==
    /\ f220_pc = "loop"
    /\ f220_i < Len(ip_addresses)
    /\ LET ip == ip_addresses[f220_i + 1]
       IN  /\ PatternMatches(ip)
           /\ IdnaEncodable(ip)
           /\ hostnames' = DictSet(hostnames, ip, ValueFor(outcome))
           /\ lookups' = Append(lookups, [at |-> f220_i + 1, outcome |-> outcome])
    /\ f220_i' = f220_i + 1
    /\ UNCHANGED <<f220_pc, ip_addresses>>

\* lines 28-31: the next string matches and gethostbyaddr raises UnicodeError,
\* which line 33 does not catch: the call ends with that exception
F220LookupRaises ==
    /\ f220_pc = "loop"
    /\ f220_i < Len(ip_addresses)
    /\ LET ip == ip_addresses[f220_i + 1]
       IN  /\ PatternMatches(ip)
           /\ ~IdnaEncodable(ip)
           /\ lookups' = Append(lookups, [at |-> f220_i + 1, outcome |-> Raises("UnicodeError")])
    /\ f220_pc' = "raised"
    /\ UNCHANGED <<ip_addresses, f220_i, hostnames>>

\* line 35: return hostnames
F220Return ==
    /\ f220_pc = "loop"
    /\ f220_i = Len(ip_addresses)
    /\ f220_pc' = "returned"
    /\ UNCHANGED <<ip_addresses, f220_i, hostnames, lookups>>

(***************************************************************************)
(* Module random: the shared generator                                     *)
(***************************************************************************)

\* random() returns one of RandRes equally spaced values r / RandRes of [0, 1)
RandRes == 8

\* The generator is deterministic: its state is the seed it was given and the
\* number of values drawn since.
Seeded(seed) == [seed |-> seed, pos |-> 0]

\* The stream of a seed is that of a linear congruential generator of full
\* period: the state after n draws.
RngModulus == 16

RECURSIVE LcgState(_, _)
LcgState(seed, n) ==
    IF n = 0 THEN seed % RngModulus
    ELSE (5 * LcgState(seed, n - 1) + 3) % RngModulus

\* the n-th value (as r of r / RandRes) a generator seeded with seed returns
RandomAt(seed, n) == LcgState(seed, n) \div (RngModulus \div RandRes)

\* the seeds the generator may hold before any call (seeded by the system)
SystemSeeds == {7, 9}

\* Performances are held in units of 1 / (10 * RandRes): 0.1 is LowPerf and
\* 1 is HighPerf.
LowPerf == RandRes
HighPerf == 10 * RandRes

\* random.uniform(a, b) = a + (b - a) * random(), for random() = r / RandRes
uniform(a, b, r) == a + ((b - a) * r) \div RandRes

\* no function that uses the generator runs
RngOff == rng = Seeded(0)

\* the interpreter has started: the generator is seeded by the system
RngInit == rng \in {Seeded(x) : x \in SystemSeeds}

\* random.seed(x) left out: the generator goes on from where it is
random_seed_Missing(generator, x) == generator

\* random.seed(x)
random_seed_call(generator, x) == Seeded(x)

(***************************************************************************)
(* datetime: timestamps, in ticks                                          *)
(***************************************************************************)

\* Time is counted in ticks; a day has TicksPerDay of them.
TicksPerDay == 2

\* datetime.fromtimestamp converts the timestamps of the years 1 to 9999,
\* MinTimestamp..MaxTimestamp, raises ValueError (year out of range) outside
\* them, and OverflowError or OSError beyond the platform's time range,
\* -PlatformMaxTimestamp..PlatformMaxTimestamp.
MinTimestamp == -5
MaxTimestamp == 4
PlatformMaxTimestamp == 6

\* the error datetime.fromtimestamp(ts) may raise, "" when it converts ts
FromTimestampErrors(ts) ==
    IF ts > PlatformMaxTimestamp \/ ts < -PlatformMaxTimestamp
      THEN {"OverflowError", "OSError"}
    ELSE IF ts > MaxTimestamp \/ ts < MinTimestamp
      THEN {"ValueError"}
    ELSE {""}

\* (a - b).days with the quotient truncated toward zero
timedelta_days_Truncated(a, b) ==
    IF a >= b THEN (a - b) \div TicksPerDay ELSE 0 - ((b - a) \div TicksPerDay)

\* (a - b).days: a timedelta is normalised to 0 <= seconds < 86400, so days is
\* the floor of the difference in days
timedelta_days(a, b) == (a - b) \div TicksPerDay

(***************************************************************************)
(* task_func                                                               *)
(***************************************************************************)

\* Python objects the teams argument is built from
StrObj(v) == [type |-> "str", v |-> v]
IntObj(v) == [type |-> "int", v |-> v]
ListObj(items) == [type |-> "list", items |-> items]
TupleObj(items) == [type |-> "tuple", items |-> items]

\* the teams arguments tried: lists of names (empty, with a repeated name),
\* a list holding a number, and a tuple of names
TeamsArguments ==
    {ListObj(<<>>),
     ListObj(<<StrObj("A")>>),
     ListObj(<<StrObj("A"), StrObj("B")>>),
     ListObj(<<StrObj("A"), StrObj("A")>>),
     ListObj(<<IntObj("1"), StrObj("A")>>),
     TupleObj(<<StrObj("A")>>)}

Seeds == {0, 42}

\* the clock readings and the start timestamps tried
ClockValues == 0..1
EpochValues == (0 - PlatformMaxTimestamp - 1)..(PlatformMaxTimestamp + 1)

\* bounds on what happens around the calls
MaxOtherDraws == 2
MaxFigures == 2

\* the test of line 40 checking the container only
TeamsValid_ListOnly(t) == t.type = "list"

\* the test of line 40: a list, all of whose elements are str
TeamsValid(t) == t.type = "list" /\ \A k \in 1..Len(t.items) : t.items[k].type = "str"

\* [0] * n
Zeros(n) == [k \in 1..n |-> 0]

\* line 47: {team: [0] * days_diff for team in teams}, built item by item
RECURSIVE ZeroSeries(_, _)
ZeroSeries(items, n) ==
    IF items = <<>> THEN EmptyDict
    ELSE DictSet(ZeroSeries(SubSeq(items, 1, Len(items) - 1), n),
                 items[Len(items)].v, Zeros(n))

TFOff ==
    /\ tf_pc = "off"
    /\ tf_error = ""
    /\ epoch_milliseconds = 0
    /\ teams = ListObj(<<>>)
    /\ random_seed = 0
    /\ current_time = 0
    /\ days_diff = 0
    /\ performance_data = EmptyDict
    /\ tf_i = 0
    /\ tf_j = 0
    /\ tf_draws = 0
    /\ rng_before = Seeded(0)
    /\ open_figures = 0
    /\ figures_before = 0

\* the interpreter has started (RngInit): no figure is open, task_func has not
\* been called
TFInit ==
    /\ tf_pc = "idle"
    /\ tf_error = ""
    /\ epoch_milliseconds = 0
    /\ teams = ListObj(<<>>)
    /\ random_seed = 0
    /\ current_time = 0
    /\ days_diff = 0
    /\ performance_data = EmptyDict
    /\ tf_i = 0
    /\ tf_j = 0
    /\ tf_draws = 0
    /\ rng_before = rng
    /\ open_figures = 0
    /\ figures_before = 0

\* lines 39-47: task_func(epoch, tms, seed) called when the clock reads now.
\* Seeds the generator, validates teams (TypeError), converts the timestamp
\* (which may raise), takes the whole-day difference (ValueError when
\* negative) and builds the series of zeros.
TFCall(epoch, tms, seed, now) ==
    /\ tf_pc = "idle"
    /\ open_figures < MaxFigures
    /\ epoch_milliseconds' = epoch
    /\ teams' = tms
    /\ random_seed' = seed
    /\ current_time' = now
    /\ rng_before' = rng
    /\ figures_before' = open_figures
    /\ rng' = random_seed_call(rng, seed)
    /\ tf_i' = 0
    /\ tf_j' = 0
    /\ tf_draws' = 0
    /\ UNCHANGED open_figures
    /\ IF ~TeamsValid(tms)
         THEN /\ tf_pc' = "raised"
              /\ tf_error' = "TypeError"
              /\ days_diff' = 0
              /\ performance_data' = EmptyDict
         ELSE \E err \in FromTimestampErrors(epoch) :
                IF err # ""
                  THEN /\ tf_pc' = "raised"
                       /\ tf_error' = err
                       /\ days_diff' = 0
                       /\ performance_data' = EmptyDict
                  ELSE /\ days_diff' = timedelta_days(now, epoch)
                       /\ IF timedelta_days(now, epoch) < 0
                            THEN /\ tf_pc' = "raised"
                                 /\ tf_error' = "ValueError"
                                 /\ performance_data' = EmptyDict
                            ELSE /\ tf_pc' = "gen"
                                 /\ tf_error' = ""
                                 /\ performance_data' =
                                      ZeroSeries(tms.items, timedelta_days(now, epoch))

\* series with the value at place k (counted from 1) increased by x
AddAt(series, k, x) == [series EXCEPT ![k] = @ + x]

\* lines 48-51, one iteration of the inner loop: draw a performance and add
\* it to the team's entry of day tf_i
TFDraw ==
    /\ tf_pc = "gen"
    /\ tf_i < days_diff
    /\ tf_j < Len(teams.items)
    /\ LET team == teams.items[tf_j + 1].v
           performance == uniform(LowPerf, HighPerf, RandomAt(rng.seed, rng.pos + 1))
       IN  performance_data' =
             [performance_data EXCEPT
                !.val[team] = AddAt(@, tf_i + 1, performance)]
    /\ rng' = [rng EXCEPT !.pos = @ + 1]
    /\ tf_draws' = tf_draws + 1
    /\ IF tf_j + 1 = Len(teams.items)
         THEN tf_i' = tf_i + 1 /\ tf_j' = 0
         ELSE tf_j' = tf_j + 1 /\ UNCHANGED tf_i
    /\ UNCHANGED <<tf_pc, tf_error, epoch_milliseconds, teams, random_seed,
                   current_time, days_diff, rng_before, open_figures,
                   figures_before>>

\* the loops of lines 48-49 are over (no day left, or no team to draw for)
LoopsDone == tf_i >= days_diff \/ Len(teams.items) = 0

\* lines 52-58: create the figure, plot one line per team, return
TFPlotAndReturn ==
    /\ tf_pc = "gen"
    /\ LoopsDone
    /\ open_figures' = open_figures + 1
    /\ tf_pc' = "returned"
    /\ UNCHANGED <<tf_error, epoch_milliseconds, teams, random_seed, current_time,
                   days_diff, performance_data, tf_i, tf_j, tf_draws, rng,
                   rng_before, figures_before>>

\* the caller has its result or its exception and goes on
TFDone ==
    /\ tf_pc \in {"returned", "raised"}
    /\ tf_pc' = "idle"
    /\ tf_error' = ""
    /\ epoch_milliseconds' = 0
    /\ teams' = ListObj(<<>>)
    /\ random_seed' = 0
    /\ current_time' = 0
    /\ days_diff' = 0
    /\ performance_data' = EmptyDict
    /\ tf_i' = 0
    /\ tf_j' = 0
    /\ tf_draws' = 0
    /\ rng_before' = rng
    /\ figures_before' = open_figures
    /\ UNCHANGED <<rng, open_figures>>

\* other code draws a value from the shared generator between two calls
OtherDraw ==
    /\ tf_pc = "idle"
    /\ rng.pos < MaxOtherDraws
    /\ rng' = [rng EXCEPT !.pos = @ + 1]
    /\ rng_before' = rng'
    /\ UNCHANGED <<tf_pc, tf_error, epoch_milliseconds, teams, random_seed,
                   current_time, days_diff, performance_data, tf_i, tf_j,
                   tf_draws, open_figures, figures_before>>

\* lines 118-119, tearDown: plt.close("all")
ClosePlots ==
    /\ tf_pc = "idle"
    /\ open_figures > 0
    /\ open_figures' = 0
    /\ figures_before' = 0
    /\ UNCHANGED <<tf_pc, tf_error, epoch_milliseconds, teams, random_seed,
                   current_time, days_diff, performance_data, tf_i, tf_j,
                   tf_draws, rng, rng_before>>

(***************************************************************************)
(* f_410                                                                   *)
(***************************************************************************)

\* VEHICLE_TYPES = ['Car', 'Bus', 'Truck', 'Bike']
VEHICLE_TYPES == <<"Car", "Bus", "Truck", "Bike">>

\* bounds: the hours asked for, and the rows the clock lets be written in all
MaxHours == 2
MaxClock == 5

\* the directories tried: the default './output' and another
Directories == {"./output", "./other"}

\* a file of a directory: whether it is there, and its lines, each line the
\* list of its comma-separated fields
NoFile == [present |-> FALSE, lines |-> <<>>]
FileOf(lines) == [present |-> TRUE, lines |-> lines]

\* the plot handle df.plot returns
Axes == [kind |-> "Axes"]

\* random.randint(a, b): a + randbelow(b - a + 1), for random() = r / RandRes
randint(a, b, r) == a + (r * (b - a + 1)) \div RandRes

\* line 46: the row of hour k (from 1), written when the clock read t and the
\* generator g had been drawn from 4 * (k - 1) times more
Row(k, g, t) ==
    <<t + k - 1>> \o
    [v \in 1..Len(VEHICLE_TYPES) |->
        randint(0, 50, RandomAt(g.seed, g.pos + Len(VEHICLE_TYPES) * (k - 1) + v))]

\* range(n) one too long
range_Inclusive(n) == [k \in 1..(n + 1) |-> k]

\* range(n), as the hours counted from 1
range(n) == [k \in 1..n |-> k]

\* lines 44-47: data = [['Time'] + VEHICLE_TYPES] and one row per hour
Data(n, g, t) ==
    <<(<<"Time">> \o VEHICLE_TYPES)>> \o
    [k \in 1..Len(range(n)) |-> Row(range(n)[k], g, t)]

\* line 42: os.makedirs(output_dir)
makedirs(fs, dir) == [fs EXCEPT ![dir] = TRUE]

\* line 41: os.path.exists(output_dir)
exists(fs, dir) == fs[dir]

\* line 48: open(FILE_PATH, 'w+') finds its directory, else FileNotFoundError
CanOpen(fs, dir) == fs[dir]

\* open(FILE_PATH, 'a'): the rows are added to what the file holds
write_Append(old, data) == FileOf(old.lines \o data)

\* lines 48-50: open(FILE_PATH, 'w+') empties the file (creating it when
\* missing) and writerows writes one line per row of data
write(old, data) == FileOf(data)

\* line 51: pd.read_csv takes the first line for the column names and the
\* others for the records
read_csv(file) == [columns |-> Head(file.lines), records |-> Tail(file.lines)]

\* df.empty
empty(df) == Len(df.records) = 0 \/ Len(df.columns) = 0

\* os.path.join(output_dir, 'traffic_data.csv')
FilePath(dir) == <<dir, "traffic_data.csv">>

F410Off ==
    /\ f410_pc = "off"
    /\ hours = 0
    /\ output_dir = "./output"
    /\ f410_result = [path |-> <<>>, ax |-> None]
    /\ dir_exists = [dir \in Directories |-> FALSE]
    /\ files = [dir \in Directories |-> NoFile]
    /\ clock = 0
    /\ f410_existed = FALSE
    /\ f410_made = FALSE
    /\ file_before = NoFile
    /\ last_data = [dir \in Directories |-> <<>>]

\* before any call: each directory is there, empty, or is not
F410Init ==
    /\ f410_pc = "idle"
    /\ hours = 0
    /\ output_dir = "./output"
    /\ f410_result = [path |-> <<>>, ax |-> None]
    /\ dir_exists \in [Directories -> BOOLEAN]
    /\ files = [dir \in Directories |-> NoFile]
    /\ clock = 0
    /\ f410_existed = FALSE
    /\ f410_made = FALSE
    /\ file_before = NoFile
    /\ last_data = [dir \in Directories |-> <<>>]

\* lines 41-59: f_410(h, dir). Creates the directory when it is missing,
\* generates the rows, writes the file over, reads it back, and returns the
\* path with None when the table is empty and with the plot otherwise.
F410Call(h, dir) ==
    /\ f410_pc = "idle"
    /\ clock + h <= MaxClock
    /\ hours' = h
    /\ output_dir' = dir
    /\ f410_existed' = exists(dir_exists, dir)
    /\ f410_made' = ~exists(dir_exists, dir)
    /\ file_before' = files[dir]
    /\ dir_exists' =
          IF exists(dir_exists, dir) THEN dir_exists ELSE makedirs(dir_exists, dir)
    /\ LET data == Data(h, rng, clock)
           file == write(files[dir], data)
           df   == read_csv(file)
       IN  /\ rng' = [rng EXCEPT !.pos = @ + Len(VEHICLE_TYPES) * (Len(data) - 1)]
           /\ clock' = clock + (Len(data) - 1)
           /\ IF CanOpen(dir_exists', dir)
              THEN /\ files' = [files EXCEPT ![dir] = file]
                   /\ last_data' = [last_data EXCEPT ![dir] = data]
                   /\ f410_result' =
                         IF empty(df) THEN [path |-> FilePath(dir), ax |-> None]
                         ELSE [path |-> FilePath(dir), ax |-> Axes]
                   /\ f410_pc' = "returned"
              ELSE /\ UNCHANGED <<files, last_data, f410_result>>
                   /\ f410_pc' = "raised"

\* the caller has its result and goes on
F410Done ==
    /\ f410_pc \in {"returned", "raised"}
    /\ f410_pc' = "idle"
    /\ hours' = 0
    /\ output_dir' = "./output"
    /\ f410_result' = [path |-> <<>>, ax |-> None]
    /\ f410_existed' = FALSE
    /\ f410_made' = FALSE
    /\ file_before' = NoFile
    /\ UNCHANGED <<dir_exists, files, clock, rng, last_data>>

\* lines 76-77, tearDown: shutil.rmtree(output_dir)
RemoveTree(dir) ==
    /\ f410_pc = "idle"
    /\ dir_exists[dir]
    /\ dir_exists' = [dir_exists EXCEPT ![dir] = FALSE]
    /\ files' = [files EXCEPT ![dir] = NoFile]
    /\ last_data' = [last_data EXCEPT ![dir] = <<>>]
    /\ UNCHANGED <<f410_pc, hours, output_dir, f410_result, clock, rng,
                   f410_existed, f410_made, file_before>>

(***************************************************************************)
(* f_391                                                                   *)
(***************************************************************************)

\* RANGE = (1, 100)
RANGE == <<1, 100>>

\* bound: the integers of the two pairs are 0..MaxFactor
MaxFactor == 2

\* the bytes of one element of the array np.random.randint makes (dtype int)
itemsize == 8

\* the largest size in bytes numpy gives an array: the largest npy_intp,
\* 2^63 - 1, scaled down here so that the largest table has nine cells
NPY_MAX_INTP == 79

\* the bytes numpy counts for an array of a shape: the item size times the
\* dimensions that are not zero (a zero dimension is skipped, not multiplied)
nbytes(shape) ==
    itemsize * (IF shape[1] = 0 THEN 1 ELSE shape[1])
             * (IF shape[2] = 0 THEN 1 ELSE shape[2])

\* whether numpy makes an array of the shape: else it raises ValueError
\* ("array is too big", or "Maximum allowed dimension exceeded")
CanAllocate(shape) == nbytes(shape) <= NPY_MAX_INTP

\* what a draw below n can give: the least, the middle and the greatest
RandbelowOutcomes(n) == {0, n \div 2, n - 1}

\* randint with high among the outcomes, as random.randint has it
np_randint_Inclusive(low, high) ==
    {low + u : u \in RandbelowOutcomes(high - low + 1)}

\* np.random.randint(low, high): the integers from low (inclusive) to high
\* (exclusive); the generator is numpy's own, seeded from the system
np_randint(low, high) == {low + u : u \in RandbelowOutcomes(high - low)}

\* the arrays np.random.randint(low, high, size=shape) can return
RandomArrays(low, high, shape) ==
    {[shape |-> shape, values |-> v] :
        v \in [1..shape[1] -> [1..shape[2] -> np_randint(low, high)]]}

NoArray == [shape |-> <<0, 0>>, values |-> <<>>]

\* line 28: pd.DataFrame(a) labels the rows and the columns 0, 1, 2, ...
DataFrame(a) ==
    [index   |-> [k \in 1..a.shape[1] |-> k - 1],
     columns |-> [k \in 1..a.shape[2] |-> k - 1],
     values  |-> a.values]

\* df.shape
shape(d) == <<Len(d.index), Len(d.columns)>>

NoFrame == [index |-> <<>>, columns |-> <<>>, values |-> <<>>]

\* line 26: L[0][0] * L[0][1], L[1][0] * L[1][1]
Products(l) == <<l[1][1] * l[1][2], l[2][1] * l[2][2]>>

F391Off ==
    /\ f391_pc = "off"
    /\ L = <<(<<0, 0>>), (<<0, 0>>)>>
    /\ rows = 0
    /\ columns = 0
    /\ random_array = NoArray
    /\ f391_df = NoFrame

\* f_391(L) is called with two pairs of non-negative integers
F391Init ==
    /\ f391_pc = "start"
    /\ L \in [1..2 -> [1..2 -> 0..MaxFactor]]
    /\ rows = 0
    /\ columns = 0
    /\ random_array = NoArray
    /\ f391_df = NoFrame

\* line 26
F391Shape ==
    /\ f391_pc = "start"
    /\ rows' = Products(L)[1]
    /\ columns' = Products(L)[2]
    /\ f391_pc' = "shaped"
    /\ UNCHANGED <<L, random_array, f391_df>>

\* line 27: np.random.randint(RANGE[0], RANGE[1], size=(rows, columns))
F391Randint ==
    /\ f391_pc = "shaped"
    /\ CanAllocate(<<rows, columns>>)
    /\ random_array' \in RandomArrays(RANGE[1], RANGE[2], <<rows, columns>>)
    /\ f391_pc' = "generated"
    /\ UNCHANGED <<L, rows, columns, f391_df>>

\* line 27, when numpy cannot make the array: ValueError leaves f_391
F391RandintRaises ==
    /\ f391_pc = "shaped"
    /\ ~CanAllocate(<<rows, columns>>)
    /\ f391_pc' = "raised"
    /\ UNCHANGED <<L, rows, columns, random_array, f391_df>>

\* lines 28-29
F391Return ==
    /\ f391_pc = "generated"
    /\ f391_df' = DataFrame(random_array)
    /\ f391_pc' = "returned"
    /\ UNCHANGED <<L, rows, columns, random_array>>

(***************************************************************************)
(* Specifications: one per function                                        *)
(***************************************************************************)

rest_f32 == <<vars_f843, vars_f220, vars_tf, vars_f410, vars_f391, rng>>
Init_F32 == F32Init /\ F843Off /\ F220Off /\ TFOff /\ F410Off /\ F391Off /\ RngOff
Next_F32 ==
    \/ F32Start /\ UNCHANGED rest_f32
    \/ F32Step /\ UNCHANGED rest_f32
SpecF32 == Init_F32 /\ [][Next_F32]_vars

rest_f843 == <<vars_f32, vars_f220, vars_tf, vars_f410, vars_f391, rng>>
Init_F843 == F843Init /\ F32Off /\ F220Off /\ TFOff /\ F410Off /\ F391Off /\ RngOff
Next_F843 ==
    \/ F843Step /\ UNCHANGED rest_f843
    \/ F843Return /\ UNCHANGED rest_f843
SpecF843 == Init_F843 /\ [][Next_F843]_vars

rest_f220 == <<vars_f32, vars_f843, vars_tf, vars_f410, vars_f391, rng>>
Init_F220 == F220Init /\ F32Off /\ F843Off /\ TFOff /\ F410Off /\ F391Off /\ RngOff
Next_F220 ==
    \/ F220Skip /\ UNCHANGED rest_f220
    \/ (\E outcome \in LookupOutcomes : F220Lookup(outcome)) /\ UNCHANGED rest_f220
    \/ F220LookupRaises /\ UNCHANGED rest_f220
    \/ F220Return /\ UNCHANGED rest_f220
SpecF220 == Init_F220 /\ [][Next_F220]_vars

rest_tf == <<vars_f32, vars_f843, vars_f220, vars_f410, vars_f391>>
Init_TF ==
    RngInit /\ TFInit /\ F32Off /\ F843Off /\ F220Off /\ F410Off /\ F391Off
Next_TF ==
    \/ (\E epoch \in EpochValues, tms \in TeamsArguments, seed \in Seeds,
           now \in ClockValues : TFCall(epoch, tms, seed, now)) /\ UNCHANGED rest_tf
    \/ TFDraw /\ UNCHANGED rest_tf
    \/ TFPlotAndReturn /\ UNCHANGED rest_tf
    \/ TFDone /\ UNCHANGED rest_tf
    \/ OtherDraw /\ UNCHANGED rest_tf
    \/ ClosePlots /\ UNCHANGED rest_tf
SpecTF == Init_TF /\ [][Next_TF]_vars

rest_f410 == <<vars_f32, vars_f843, vars_f220, vars_tf, vars_f391>>
Init_F410 ==
    RngInit /\ F410Init /\ F32Off /\ F843Off /\ F220Off /\ TFOff /\ F391Off
Next_F410 ==
    \/ (\E h \in 0..MaxHours, dir \in Directories : F410Call(h, dir))
          /\ UNCHANGED rest_f410
    \/ F410Done /\ UNCHANGED rest_f410
    \/ (\E dir \in Directories : RemoveTree(dir)) /\ UNCHANGED rest_f410
SpecF410 == Init_F410 /\ [][Next_F410]_vars

rest_f391 == <<vars_f32, vars_f843, vars_f220, vars_tf, vars_f410, rng>>
Init_F391 ==
    F391Init /\ F32Off /\ F843Off /\ F220Off /\ TFOff /\ F410Off /\ RngOff
Next_F391 ==
    \/ F391Shape /\ UNCHANGED rest_f391
    \/ F391Randint /\ UNCHANGED rest_f391
    \/ F391RandintRaises /\ UNCHANGED rest_f391
    \/ F391Return /\ UNCHANGED rest_f391
SpecF391 == Init_F391 /\ [][Next_F391]_vars

(***************************************************************************)
(* Claims about f_32                                                       *)
(***************************************************************************)

\* Monday to Friday
IsWeekday(ord) == weekday(ord) \in 0..4

\* r is the earliest weekday strictly after d, and at most 3 days after it
EarliestWeekdayAfter(d, r) ==
    /\ r > d
    /\ r - d \in 1..3
    /\ IsWeekday(r)
    /\ \A x \in (d + 1)..(r - 1) : ~IsWeekday(x)
    /\ r - d = (CASE weekday(d) = 4 -> 3
                  [] weekday(d) = 5 -> 2
                  [] OTHER -> 1)

\* C1 as stated: for every parseable date f_32 returns the earliest weekday
\* strictly after it, 1 to 3 days later, and the loop always terminates (it
\* never raises and never goes beyond the third day).
C1_Original ==
    /\ f32_pc # "raised"
    /\ f32_pc = "loop" => next_day - given_date \in 0..2
    /\ f32_pc = "returned" => EarliestWeekdayAfter(given_date, next_day)

\* C1 amended: for every parseable date other than 9999-12-31 f_32 returns the
\* earliest weekday strictly after it (never the date itself, 1 to 3 days
\* later, no weekday in between; Friday -> Monday, Saturday -> Monday, Sunday ->
\* Monday, else the next day) and the loop ends within 3 iterations; for
\* 9999-12-31, a Friday, the date addition overflows and the call raises.
C1_NextBusinessDay ==
    /\ f32_pc = "raised" => date_str = <<MAXYEAR, 12, 31>>
    /\ f32_pc = "returned" => date_str # <<MAXYEAR, 12, 31>>
    /\ f32_pc = "loop" => next_day - given_date \in 0..2
    /\ f32_pc = "returned" => EarliestWeekdayAfter(given_date, next_day)
    /\ f32_pc \in {"loop", "returned", "raised"} => given_date = parse(date_str)

\* f_32('2022-10-28'), a Friday, has returned Monday 2022-10-31
C1_Witness ==
    /\ f32_pc = "returned"
    /\ date_str = <<2022, 10, 28>>
    /\ next_day = ymd2ord(2022, 10, 31)
    /\ next_day - given_date = 3

(***************************************************************************)
(* Claims about f_843                                                      *)
(***************************************************************************)

\* 1^2 + 2^2 + ... + n^2
SquarePyramidal(n) == (n * (n + 1) * (2 * n + 1)) \div 6

\* C2: the result has the length and order of the argument, its i-th element
\* is the sum of k^2 for k = 1..min(N_i, 10) with N_i the length of the i-th
\* sublist, whatever the sublist holds: 0 for an empty sublist, 385 for 10 or
\* more elements, [] for an empty argument.
C2_SumOfSquares ==
    /\ Len(sums) = f843_i
    /\ f843_pc = "returned" => Len(sums) = Len(list_of_lists)
    /\ \A k \in 1..Len(sums) :
          LET n == Len(list_of_lists[k])
          IN  /\ sums[k] = SquarePyramidal(IF n < 10 THEN n ELSE 10)
              /\ n = 0 => sums[k] = 0
              /\ n >= 10 => sums[k] = 385

\* f_843 has returned [385, 0] for an 11-element sublist and an empty one
C2_Witness ==
    /\ f843_pc = "returned"
    /\ Len(list_of_lists) = 2
    /\ Len(list_of_lists[1]) = 11
    /\ list_of_lists[2] = <<>>
    /\ sums = <<385, 0>>

(***************************************************************************)
(* Claims about f_220                                                      *)
(***************************************************************************)

\* four non-empty groups of decimal digits separated by three dots, and
\* nothing else
IsDottedQuad(s) ==
    \E a, b, c \in 1..Len(s) :
        /\ 1 < a /\ a + 1 < b /\ b + 1 < c /\ c < Len(s)
        /\ \A k \in 1..Len(s) :
              IF k \in {a, b, c} THEN s[k] = "." ELSE s[k] \in Digits

\* a dict value that is a non-empty string or None
IsNameOrNone(v) == v = None \/ (v.kind = "str" /\ v.s # <<>>)

\* C3: every key of the result is drawn from the input and is a dotted quad
\* (four digit groups separated by dots, nothing after the fourth), and its
\* value is a non-empty string or None.
C3_KeysAreDottedQuads ==
    \A k \in SeqRange(hostnames.keys) :
        /\ k \in SeqRange(ip_addresses)
        /\ IsDottedQuad(k)
        /\ IsNameOrNone(hostnames.val[k])

\* the lookups made for the string ip, in the order made
LookupsOf(ip) == SelectSeq(lookups, LAMBDA lk : ip_addresses[lk.at] = ip)

\* the outcome of the last lookup made for ip
LastOutcome(ip) == LookupsOf(ip)[Len(LookupsOf(ip))].outcome

RECURSIVE FirstSeen(_)
FirstSeen(q) ==
    IF q = <<>> THEN <<>>
    ELSE LET front == FirstSeen(SubSeq(q, 1, Len(q) - 1))
             last  == q[Len(q)]
         IN  IF last \in SeqRange(front) THEN front ELSE Append(front, last)

\* the positions among the first n of the argument whose string matches
MatchingPositions(n) == {j \in 1..n : re_match(ip_addresses[j])}

\* C5: the keys are the pattern-matching inputs consumed so far, without
\* duplicates, in the order of their first occurrence; each occurrence is
\* looked up once, in input order; a value is the outcome of the last lookup
\* of its key. On return all of the input has been consumed.
C5_FirstSeenOrder ==
    /\ hostnames.keys =
          FirstSeen(SelectSeq(SubSeq(ip_addresses, 1, f220_i), re_match))
    /\ \A n \in 1..(Len(lookups) - 1) : lookups[n].at < lookups[n + 1].at
    /\ {lookups[n].at : n \in 1..Len(lookups)} =
          MatchingPositions(IF f220_pc = "raised" THEN f220_i + 1 ELSE f220_i)
    /\ \A k \in SeqRange(hostnames.keys) :
          hostnames.val[k] = ValueFor(LastOutcome(k))
    /\ f220_pc = "returned" => f220_i = Len(ip_addresses)

\* f_220 has returned for an address given twice with another in between: the
\* key keeps its first place and holds the outcome of the second lookup
C5_Witness ==
    /\ f220_pc = "returned"
    /\ ip_addresses = <<IP_1234, IP_8844, IP_1234>>
    /\ Len(lookups) = 3
    /\ lookups[1].outcome = Returns(<<"d", "n", "s">>)
    /\ lookups[3].outcome = Raises("herror")
    /\ hostnames.keys = <<IP_1234, IP_8844>>
    /\ hostnames.val[IP_1234] = None

(***************************************************************************)
(* Claims about task_func                                                  *)
(***************************************************************************)

\* a teams argument that is a list holding nothing but strings
IsListOfStr(t) ==
    /\ t.type = "list"
    /\ {k \in 1..Len(t.items) : t.items[k].type # "str"} = {}

\* the names of the teams argument, in order
TeamNames == [k \in 1..Len(teams.items) |-> teams.items[k].v]

\* the performance the n-th draw after seeding with random_seed gives
DrawAfterSeed(n) == uniform(LowPerf, HighPerf, RandomAt(random_seed, n))

\* C6: for a non-future start and any accepted team list (empty, or with a
\* name repeated), every value of the returned mapping is a sequence of
\* days_diff entries, each in [0.1, 1.0] and each exactly one uniform draw
\* made for that team and day.
C6_SeriesInRange ==
    tf_pc = "returned" =>
        \A name \in SeqRange(performance_data.keys) :
            LET series == performance_data.val[name]
            IN  /\ Len(series) = days_diff
                /\ \A d \in 1..days_diff :
                      /\ LowPerf <= series[d] /\ series[d] <= HighPerf
                      /\ \E k \in 1..Len(TeamNames) :
                            /\ TeamNames[k] = name
                            /\ series[d] =
                                 DrawAfterSeed((d - 1) * Len(TeamNames) + k)

\* C7 as stated: with a valid team list, ValueError is raised for every start
\* later than the clock, however small the lead, and for no start at or
\* before it; a start less than a day in the past is accepted with empty
\* sequences.
C7_Original ==
    (tf_pc \in {"gen", "returned", "raised"} /\ IsListOfStr(teams)) =>
        /\ (tf_pc = "raised" /\ tf_error = "ValueError")
              <=> epoch_milliseconds > current_time
        /\ epoch_milliseconds > current_time => tf_pc = "raised"
        /\ epoch_milliseconds <= current_time => tf_pc # "raised"

\* C7 amended: with a valid team list and a start that datetime.fromtimestamp
\* converts, ValueError is raised exactly when the start is later than the
\* clock, however small the lead, and a start less than a day in the past is
\* accepted with empty sequences. A start outside the years 1 to 9999 makes
\* the conversion raise ValueError whether it is past or future, and one
\* outside the platform's time range makes it raise OverflowError or OSError.
C7_FutureStartRejected ==
    (tf_pc \in {"gen", "returned", "raised"} /\ IsListOfStr(teams)) =>
        LET e == epoch_milliseconds
        IN  /\ (MinTimestamp <= e /\ e <= MaxTimestamp) =>
                  /\ e > current_time => tf_pc = "raised" /\ tf_error = "ValueError"
                  /\ e <= current_time => tf_pc # "raised"
                  /\ (e <= current_time /\ current_time - e < TicksPerDay) =>
                        /\ days_diff = 0
                        /\ \A name \in SeqRange(performance_data.keys) :
                              performance_data.val[name] = <<>>
            /\ (e < MinTimestamp \/ e > MaxTimestamp) => tf_pc = "raised"
            /\ (tf_pc = "raised" /\ tf_error # "ValueError") =>
                  /\ e > PlatformMaxTimestamp \/ e < 0 - PlatformMaxTimestamp
                  /\ tf_error \in {"OverflowError", "OSError"}
            /\ (e >= 0 - PlatformMaxTimestamp /\ e <= PlatformMaxTimestamp) =>
                  (tf_pc = "raised" => tf_error = "ValueError")

\* a start one tick later than the clock has been rejected with ValueError
C7_Witness ==
    /\ tf_pc = "raised"
    /\ tf_error = "ValueError"
    /\ IsListOfStr(teams)
    /\ epoch_milliseconds = current_time + 1
    /\ epoch_milliseconds <= MaxTimestamp

\* the call has raised one of its own two errors: the TypeError of line 41, or
\* the ValueError of line 46 (the timestamp was converted and is in the future)
ExplicitlyRejected ==
    /\ tf_pc = "raised"
    /\ \/ tf_error = "TypeError"
       \/ /\ tf_error = "ValueError"
          /\ MinTimestamp <= epoch_milliseconds
          /\ epoch_milliseconds <= MaxTimestamp

\* C8 as stated: when the type error or the validation error is raised, no
\* random value has been drawn, no figure has been created and no observable
\* state, the shared generator's included, has been changed by the call; with
\* both defects the type error is raised.
C8_Original ==
    /\ (tf_pc # "idle" /\ ~IsListOfStr(teams)) =>
          tf_pc = "raised" /\ tf_error = "TypeError"
    /\ ExplicitlyRejected =>
          /\ tf_draws = 0
          /\ open_figures = figures_before
          /\ rng = rng_before

\* C8 amended: when the type error or the validation error is raised, no
\* random value has been drawn, no figure and no series has been created,
\* and the only state the call has changed is the shared generator, which it
\* has re-seeded with random_seed; with both defects the type error is
\* raised.
C8_RejectedBeforeGeneration ==
    /\ (tf_pc # "idle" /\ ~IsListOfStr(teams)) =>
          tf_pc = "raised" /\ tf_error = "TypeError"
    /\ (tf_pc # "idle" /\ IsListOfStr(teams) /\ epoch_milliseconds > current_time) =>
          tf_pc = "raised"
    /\ ExplicitlyRejected =>
          /\ tf_draws = 0
          /\ open_figures = figures_before
          /\ performance_data = EmptyDict
          /\ rng = Seeded(random_seed)
          /\ tf_error = "TypeError" <=> ~IsListOfStr(teams)

\* a call with a list holding a number and a future start has raised
\* TypeError, after the generator had been seeded otherwise and drawn from
C8_Witness ==
    /\ tf_pc = "raised"
    /\ tf_error = "TypeError"
    /\ teams = ListObj(<<IntObj("1"), StrObj("A")>>)
    /\ epoch_milliseconds > current_time
    /\ rng_before.pos > 0
    /\ rng_before # rng

\* the sum of f(k) over the places k in 1..n
RECURSIVE SumOver(_, _)
SumOver(f(_), n) == IF n = 0 THEN 0 ELSE f(n) + SumOver(f, n - 1)

\* what a call gives for team name on day d (from 1) when the draws are the
\* stream of its own seed taken day by day and, within a day, team by team
ExpectedEntry(name, d) ==
    LET n == Len(TeamNames)
        Share(k) == IF TeamNames[k] = name
                      THEN DrawAfterSeed((d - 1) * n + k) ELSE 0
    IN  SumOver(Share, n)

\* C9: the returned mapping is a function of the seed, the team list and the
\* whole-day gap alone, whatever the generator's state before the call: its
\* keys are the teams in first-seen order and its values are the stream of
\* the seed taken in day-major, team-minor order.
C9_DeterministicInSeed ==
    tf_pc = "returned" =>
        /\ performance_data.keys = FirstSeen(TeamNames)
        /\ \A name \in SeqRange(performance_data.keys) :
              performance_data.val[name] =
                  [d \in 1..days_diff |-> ExpectedEntry(name, d)]
        /\ rng = [seed |-> random_seed, pos |-> days_diff * Len(TeamNames)]

\* a call for two teams and two days has returned, made when the generator
\* held another seed and had been drawn from
C9_Witness ==
    /\ tf_pc = "returned"
    /\ TeamNames = <<"A", "B">>
    /\ days_diff >= 2
    /\ rng_before.seed # random_seed
    /\ rng_before.pos > 0
    /\ performance_data.val["A"][2] # performance_data.val["B"][1]

(***************************************************************************)
(* Claims about f_410                                                      *)
(***************************************************************************)

\* the file the current call was asked to write
WrittenFile == files[output_dir]

\* C10: after f_410(h, dir) the file dir/traffic_data.csv is the header
\* Time,Car,Bus,Truck,Bike followed by exactly h rows, each a timestamp and
\* four counts in [0, 50]; the path of that file is returned, with None for
\* the plot when h = 0 and with a plot handle when h >= 1.
C10_HeaderAndRows ==
    f410_pc = "returned" =>
        /\ dir_exists[output_dir]
        /\ WrittenFile.present
        /\ Len(WrittenFile.lines) = hours + 1
        /\ WrittenFile.lines[1] = <<"Time", "Car", "Bus", "Truck", "Bike">>
        /\ \A k \in 2..Len(WrittenFile.lines) :
              LET row == WrittenFile.lines[k]
              IN  /\ Len(row) = 5
                  /\ row[1] \in 0..clock
                  /\ \A v \in 2..5 : row[v] \in 0..50
        /\ f410_result.path = <<output_dir, "traffic_data.csv">>
        /\ hours = 0 => f410_result.ax = None
        /\ hours >= 1 => f410_result.ax = Axes

\* f_410(0, dir) has returned None for the plot, over a file that an earlier
\* call had filled
C10_Witness ==
    /\ f410_pc = "returned"
    /\ hours = 0
    /\ clock > 0
    /\ WrittenFile.lines = <<(<<"Time", "Car", "Bus", "Truck", "Bike">>)>>
    /\ f410_result = [path |-> <<output_dir, "traffic_data.csv">>, ax |-> None]

\* the lines of a file are the header and n rows, the k-th stamped with the
\* k-th tick from t on and holding four counts
HeaderAndRowsFrom(lines, n, t) ==
    /\ Len(lines) = n + 1
    /\ lines[1] = <<"Time", "Car", "Bus", "Truck", "Bike">>
    /\ \A k \in 2..Len(lines) :
          /\ Len(lines[k]) = 5
          /\ lines[k][1] = t + k - 2
          /\ \A v \in 2..5 : lines[k][v] \in 0..50

\* C12: over any sequence of f_410 calls, on a directory that was there before
\* the first call or was not, no call raises; traffic_data.csv of a directory
\* holds exactly the data of the latest call that wrote there; when a call
\* has returned the file holds the header and the rows of that call alone,
\* stamped with the ticks of that call, whatever the file held before; and
\* the call has run os.makedirs exactly when the directory was absent.
C12_OnlyLatestRows ==
    /\ f410_pc # "raised"
    /\ \A dir \in Directories :
          /\ files[dir].present => dir_exists[dir]
          /\ last_data[dir] # <<>> =>
                files[dir].present /\ files[dir].lines = last_data[dir]
          /\ last_data[dir] = <<>> => ~files[dir].present
    /\ f410_pc = "returned" =>
          /\ dir_exists[output_dir]
          /\ f410_made = ~f410_existed
          /\ HeaderAndRowsFrom(WrittenFile.lines, hours, clock - hours)

\* a call for one hour has returned on a directory that was there and whose
\* file held two rows of an earlier call: the file now holds one row
C12_Witness ==
    /\ f410_pc = "returned"
    /\ f410_existed
    /\ ~f410_made
    /\ file_before.present
    /\ Len(file_before.lines) = 3
    /\ hours = 1
    /\ Len(WrittenFile.lines) = 2
    /\ WrittenFile.lines[2][1] > file_before.lines[3][1]

(***************************************************************************)
(* Claims about f_391                                                      *)
(***************************************************************************)

\* the table f_391 returned has a * b rows of c * d values each, labelled so,
\* and every value is an integer from 1 to 99
TableOfProducts ==
    LET a == L[1][1]
        b == L[1][2]
        c == L[2][1]
        d == L[2][2]
    IN  /\ shape(f391_df) = <<a * b, c * d>>
        /\ Len(f391_df.values) = a * b
        /\ \A i \in 1..Len(f391_df.values) :
              /\ Len(f391_df.values[i]) = c * d
              /\ \A j \in 1..Len(f391_df.values[i]) :
                    /\ f391_df.values[i][j] \in Int
                    /\ 1 <= f391_df.values[i][j]
                    /\ f391_df.values[i][j] < 100

\* the bytes of a table of a * b by c * d integers of 8 bytes, a dimension of
\* zero counting for one, are more than the largest array size
TableTooBig ==
    LET n == L[1][1] * L[1][2]
        m == L[2][1] * L[2][2]
    IN  8 * (IF n = 0 THEN 1 ELSE n) * (IF m = 0 THEN 1 ELSE m) > NPY_MAX_INTP

====
